---- MODULE Spec2Model ----
(***************************************************************************)
(* The render-loop controller of src/src/components/AudioVisualizer.tsx.   *)
(*                                                                         *)
(* The file holds two implementations of the component:                    *)
(*   "A"  lines 1-364    startVisualization / stopVisualization /          *)
(*                       visualize / draw, every session object in a ref;  *)
(*   "B"  lines 366-795  startRecording / stopRecording / draw /           *)
(*                       drawFrame, with isRecording, audioContext and     *)
(*                       visualizationType read from the closure of the    *)
(*                       render in which the handler was created.          *)
(* impl says which one is mounted.  A handler runs to completion (one      *)
(* execution context); the only suspension point is the await of           *)
(* getUserMedia, so a start is a synchronous part, and later a resume      *)
(* (resolved) or a catch (rejected).  State setters take effect at the     *)
(* re-render that follows the handler, so a handler keeps reading the      *)
(* values its closure captured; the part that runs after the await reads   *)
(* the values captured when start was called.                              *)
(***************************************************************************)
EXTENDS Integers, FiniteSets, Sequences, TLC

\* Number of start calls explored: attempt k acquires stream k, creates
\* source k and analyser k and runs frame loop k.
MaxStarts == 2

Ids == 1..MaxStarts
Impls == {"A", "B"}
\* 'line' is called 'straight' in implementation B.
Styles == {"line", "circle", "bar"}

VARIABLES
  impl,                 \* which implementation is mounted
  mounted,              \* the component is mounted
  canvas,               \* canvasRef.current is an element
  devLoad,              \* the device-loading effect: "loading" | "done"
  selectedDevice,       \* selectedMicrophone / selectedDevice, 0 is ''
  visualizationType,    \* state
  visualizationTypeRef, \* A: visualizationTypeRef.current
  isRecording,          \* state (RecordingState: TRUE is Active)
  audioContext,         \* A: audioContextRef.current; B: state; 0 is null
  analyser,             \* A: analyserRef.current; B: state; 0 is null
  sourceRef,            \* sourceRef.current, 0 is null
  streamRef,            \* streamRef.current, 0 is null
  animationRef,         \* A: animationRef.current; B: animationFrameId.current
                        \* the loop whose latest frame request it names, 0 is none
  pendingFrames,        \* loops with a frame request pending in the scheduler
  attempts,             \* per start call: its await and what its closure captured
  nextId,               \* number of start calls that reached the await
  live,                 \* acquired streams whose tracks are not stopped
  connected,            \* source nodes connected to their analyser
  ctxOpen,              \* audio contexts created and not closed
  debugInfo,            \* B: the status string shown; A shows none ("")
  surface,              \* what the canvas shows
  canvasSize,           \* the width and height the canvas has now
  last,                 \* the handler that ran last, and what it did
  stopped,              \* a stop has returned and no start has succeeded since
  styleChanged,         \* the style was changed during the current Active period
  tf                    \* a render transform applied to a buffer and a geometry

sys == <<mounted, canvas, devLoad, selectedDevice, visualizationType,
         visualizationTypeRef, isRecording, audioContext, analyser, sourceRef,
         streamRef, animationRef, pendingFrames, attempts, nextId, live,
         connected, ctxOpen, debugInfo, surface, canvasSize>>
vars == <<impl, sys, last, stopped, styleChanged, tf>>

\* The component's state as one value, so that a handler is a function on it.
Cur ==
  [mounted |-> mounted, canvas |-> canvas, devLoad |-> devLoad,
   selectedDevice |-> selectedDevice,
   visualizationType |-> visualizationType,
   visualizationTypeRef |-> visualizationTypeRef, isRecording |-> isRecording,
   audioContext |-> audioContext, analyser |-> analyser, sourceRef |-> sourceRef,
   streamRef |-> streamRef, animationRef |-> animationRef,
   pendingFrames |-> pendingFrames, attempts |-> attempts, nextId |-> nextId,
   live |-> live, connected |-> connected, ctxOpen |-> ctxOpen,
   debugInfo |-> debugInfo, surface |-> surface, canvasSize |-> canvasSize]

Commit(t) ==
  /\ mounted' = t.mounted
  /\ canvas' = t.canvas
  /\ devLoad' = t.devLoad
  /\ selectedDevice' = t.selectedDevice
  /\ visualizationType' = t.visualizationType
  /\ visualizationTypeRef' = t.visualizationTypeRef
  /\ isRecording' = t.isRecording
  /\ audioContext' = t.audioContext
  /\ analyser' = t.analyser
  /\ sourceRef' = t.sourceRef
  /\ streamRef' = t.streamRef
  /\ animationRef' = t.animationRef
  /\ pendingFrames' = t.pendingFrames
  /\ attempts' = t.attempts
  /\ nextId' = t.nextId
  /\ live' = t.live
  /\ connected' = t.connected
  /\ ctxOpen' = t.ctxOpen
  /\ debugInfo' = t.debugInfo
  /\ surface' = t.surface
  /\ canvasSize' = t.canvasSize

\* No transform applied.
NoTransform == [style |-> "none", data |-> <<>>, width |-> 0, height |-> 0, out |-> <<>>]

\* The sizes the canvas takes: as first laid out, and after a resize.
Sizes == {"initial", "resized"}

NoAttempt == [st |-> "none", recC |-> FALSE, ctxC |-> 0, styleC |-> "line",
              sizeC |-> "initial"]

\* What the closure of the render in which start is called holds, and the code
\* that runs after the await reads: in B isRecording (drawFrame), audioContext
\* (stopRecording) and visualizationType (drawFrame); in A nothing, every
\* value being read from a ref.
Capture(s) ==
  IF impl = "A" THEN [NoAttempt EXCEPT !.st = "pending"]
  ELSE [st |-> "pending", recC |-> s.isRecording, ctxC |-> s.audioContext,
        styleC |-> s.visualizationType, sizeC |-> "initial"]

\* A state setter of an unmounted component changes nothing.
setIsRecording(s, v) == IF s.mounted THEN [s EXCEPT !.isRecording = v] ELSE s
setAudioContext(s, v) == IF s.mounted THEN [s EXCEPT !.audioContext = v] ELSE s
setAnalyser(s, v) == IF s.mounted THEN [s EXCEPT !.analyser = v] ELSE s
setDebugInfo(s, v) == IF s.mounted THEN [s EXCEPT !.debugInfo = v] ELSE s

\* cancelAnimationFrame(h): the request of loop h, if still pending, is dropped.
cancelAnimationFrame(s, h) == [s EXCEPT !.pendingFrames = @ \ {h}]

----
(* Implementation A *)

\* draw of visualize: one frame cycle of loop k.  The next frame is requested
\* first; a transform that throws leaves the rest of the cycle undone.
draw(s, k, throws) ==
  [s EXCEPT !.animationRef = k,
            !.pendingFrames = @ \cup {k},
            !.surface = IF throws THEN "partial" ELSE "frame"]

\* The steps of one cycle of draw, in the order they are made.
drawSteps == <<"request", "read", "background", "transform">>

\* visualize: width and height are read from the canvas once, here, and draw
\* closes over them.
visualize(s, k, throws) ==
  IF ~s.canvas \/ s.analyser = 0 THEN s
  ELSE draw([s EXCEPT !.surface = "cleared", !.attempts[k].sizeC = s.canvasSize],
            k, throws)

\* startVisualization up to its await.
startVisualization(s) ==
  IF s.selectedDevice = 0 THEN s
  ELSE LET k == s.nextId + 1
           s1 == IF s.audioContext = 0
                   THEN [s EXCEPT !.audioContext = k, !.ctxOpen = @ \cup {k}]
                   ELSE s
       IN [s1 EXCEPT !.nextId = k, !.attempts[k] = Capture(s)]

\* startVisualization after getUserMedia resolved with stream k.
startVisualization_resume(s, k, throws) ==
  LET s1 == [s EXCEPT !.attempts[k].st = "ok",
                      !.streamRef = k, !.live = @ \cup {k},
                      !.connected = @ \cup {k},
                      !.analyser = k, !.sourceRef = k]
  IN visualize(setIsRecording(s1, TRUE), k, throws)

\* startVisualization's catch after getUserMedia rejected: console.error only.
startVisualization_catch(s, k) == [s EXCEPT !.attempts[k].st = "failed"]

\* stopVisualization as it would be if it dropped the stream reference without
\* stopping the tracks.
stopVisualization_TracksNotStopped(s) ==
  LET s1 == IF s.animationRef # 0 THEN cancelAnimationFrame(s, s.animationRef) ELSE s
      s2 == IF s1.sourceRef # 0
              THEN [s1 EXCEPT !.connected = @ \ {s1.sourceRef}, !.sourceRef = 0]
              ELSE s1
  IN setIsRecording([s2 EXCEPT !.streamRef = 0], FALSE)

stopVisualization(s) ==
  LET s1 == IF s.animationRef # 0 THEN cancelAnimationFrame(s, s.animationRef) ELSE s
      s2 == IF s1.sourceRef # 0
              THEN [s1 EXCEPT !.connected = @ \ {s1.sourceRef}, !.sourceRef = 0]
              ELSE s1
      s3 == IF s2.streamRef # 0
              THEN [s2 EXCEPT !.live = @ \ {s2.streamRef}, !.streamRef = 0]
              ELSE s2
  IN setIsRecording(s3, FALSE)

----
(* Implementation B *)

\* stopRecording as created in a render whose audioContext state was ctxC.
stopRecording(s, ctxC) ==
  LET s1 == IF s.animationRef # 0
              THEN [cancelAnimationFrame(s, s.animationRef) EXCEPT !.animationRef = 0]
              ELSE s
      s2 == IF s1.streamRef # 0
              THEN [s1 EXCEPT !.live = @ \ {s1.streamRef}, !.streamRef = 0]
              ELSE s1
      s3 == IF s2.sourceRef # 0
              THEN [s2 EXCEPT !.connected = @ \ {s2.sourceRef}, !.sourceRef = 0]
              ELSE s2
      s4 == IF ctxC # 0
              THEN setAudioContext([s3 EXCEPT !.ctxOpen = @ \ {ctxC}], 0)
              ELSE s3
      s5 == setDebugInfo(setIsRecording(setAnalyser(s4, 0), FALSE), "stopped")
  IN IF s5.canvas THEN [s5 EXCEPT !.surface = "cleared"] ELSE s5

\* drawFrame of the draw call made by start attempt k: isRecording and
\* visualizationType are the ones attempt k's closure captured.
drawFrame(s, k, throws) ==
  IF ~s.attempts[k].recC
    THEN IF s.animationRef # 0
           THEN [cancelAnimationFrame(s, s.animationRef) EXCEPT !.animationRef = 0]
           ELSE s
    ELSE IF throws
           THEN stopRecording([s EXCEPT !.surface = "partial"], s.attempts[k].ctxC)
           ELSE setDebugInfo([s EXCEPT !.surface = "frame",
                                       !.animationRef = k,
                                       !.pendingFrames = @ \cup {k}], "telemetry")

\* The steps of one cycle of drawFrame past its isRecording guard, in the
\* order they are made.
drawFrameSteps(throws) ==
  <<"read", "background", "transform">> \o (IF throws THEN <<>> ELSE <<"request">>)

\* draw(analyserNode) of implementation B: rect is read once, here, and
\* drawFrame closes over it.
drawB(s, k, throws) ==
  IF ~s.canvas THEN setDebugInfo(s, "cannotdraw")
  ELSE drawFrame([s EXCEPT !.surface = "cleared", !.attempts[k].sizeC = s.canvasSize],
                 k, throws)

\* startRecording as it would be without the check of selectedDevice.
startRecording_NoDeviceCheck(s) ==
  LET k == s.nextId + 1
      s1 == stopRecording(s, s.audioContext)
  IN IF k \in Ids
       THEN [s1 EXCEPT !.nextId = k, !.ctxOpen = @ \cup {k},
                       !.attempts[k] = Capture(s)]
       ELSE s1

\* startRecording up to its await.
startRecording(s) ==
  IF s.selectedDevice = 0 THEN setDebugInfo(s, "nodevice")
  ELSE LET k == s.nextId + 1
           s1 == stopRecording(s, s.audioContext)
       IN [s1 EXCEPT !.nextId = k, !.ctxOpen = @ \cup {k},
                     !.attempts[k] = Capture(s)]

\* startRecording after getUserMedia resolved with stream k.
startRecording_resume(s, k, throws) ==
  LET s1 == [s EXCEPT !.attempts[k].st = "ok",
                      !.connected = @ \cup {k}, !.live = @ \cup {k},
                      !.streamRef = k, !.sourceRef = k]
      s2 == setDebugInfo(setIsRecording(setAnalyser(setAudioContext(s1, k), k), TRUE),
                         "started")
  IN drawB(s2, k, throws)

\* startRecording's catch after getUserMedia rejected.
startRecording_catch(s, k) ==
  stopRecording(setDebugInfo([s EXCEPT !.attempts[k].st = "failed"], "error"),
                s.attempts[k].ctxC)

----
(* History: what the last handler did, for stating the claims *)

\* The part of the state the lifecycle claims speak of.
Core(s) == <<s.isRecording, s.pendingFrames, s.streamRef, s.sourceRef, s.live,
             s.connected>>

\* op: the handler; id: the start attempt or loop it belongs to; s, t: the
\* state before and after; executed: a frame cycle ran (sample read and
\* paint); threw: its transform threw; read, style: the buffer it read and the
\* transform it dispatched to; stopRan: the handler ended by running stop.
LastRec(op, id, s, t, executed, threw, read, style, stopRan) ==
  [op |-> op, id |-> id, wasActive |-> s.isRecording,
   streamWas |-> s.streamRef, sourceWas |-> s.sourceRef,
   executed |-> executed, threw |-> executed /\ threw,
   read |-> IF executed THEN read ELSE "none",
   style |-> IF executed THEN style ELSE "none",
   stopRan |-> stopRan, afterStop |-> last.stopRan,
   same |-> Core(s) = Core(t), steps |-> <<>>, geom |-> "none"]

\* The record of a handler that ran frame cycle k: the cycle's steps in
\* order and the geometry its paint used are added when it executed.
CycleRec(r, t, k, throws) ==
  IF r.executed
    THEN [r EXCEPT !.steps = IF impl = "A" THEN drawSteps ELSE drawFrameSteps(throws),
                   !.geom = t.attempts[k].sizeC]
    ELSE r

Plain(op, id, s, t) == LastRec(op, id, s, t, FALSE, FALSE, "none", "none", FALSE)

\* The buffer a cycle of implementation A requests for a style.
ReadFor(style) == IF style = "bar" THEN "freq" ELSE "time"

\* The buffer a frame cycle requests when the style it sees is style: draw
\* chooses by the style, drawFrame always asks for the frequency data.
SampleRead(style) == IF impl = "A" THEN ReadFor(style) ELSE "freq"

----
(* Initial state: the component just mounted *)

InitController ==
  /\ impl \in Impls
  /\ mounted = TRUE
  /\ canvas = TRUE
  /\ devLoad = "loading"
  /\ selectedDevice = 0
  /\ visualizationType = "line"
  /\ visualizationTypeRef = "line"
  /\ isRecording = FALSE
  /\ audioContext = 0
  /\ analyser = 0
  /\ sourceRef = 0
  /\ streamRef = 0
  /\ animationRef = 0
  /\ pendingFrames = {}
  /\ attempts = [k \in Ids |-> NoAttempt]
  /\ nextId = 0
  /\ live = {}
  /\ connected = {}
  /\ ctxOpen = {}
  /\ debugInfo = ""
  /\ surface = "blank"
  /\ canvasSize = "initial"
  /\ last = [op |-> "init", id |-> 0, wasActive |-> FALSE, streamWas |-> 0,
             sourceWas |-> 0, executed |-> FALSE, threw |-> FALSE,
             read |-> "none", style |-> "none", stopRan |-> FALSE,
             afterStop |-> FALSE, same |-> TRUE, steps |-> <<>>, geom |-> "none"]
  /\ stopped = FALSE
  /\ styleChanged = FALSE

Init == InitController /\ tf = NoTransform

----
(* Handlers *)

\* The device-loading effect has enumerated the audio inputs; found: there
\* is at least one, and the first becomes the selected device.
getMicrophones(s, found) ==
  LET s1 == IF s.mounted /\ found THEN [s EXCEPT !.selectedDevice = 1] ELSE s
  IN [s1 EXCEPT !.devLoad = "done"]

loadAudioDevices(s, found) ==
  LET s1 == IF s.mounted /\ found /\ s.selectedDevice = 0
              THEN [s EXCEPT !.selectedDevice = 1] ELSE s
  IN [setDebugInfo(s1, "devices") EXCEPT !.devLoad = "done"]

DevicesLoaded ==
  /\ devLoad = "loading"
  /\ \E n \in BOOLEAN :
       LET t == IF impl = "A" THEN getMicrophones(Cur, n) ELSE loadAudioDevices(Cur, n)
       IN Commit(t) /\ last' = Plain("load", 0, Cur, t)
  /\ UNCHANGED <<tf, impl, stopped, styleChanged>>

\* The device-loading effect failed (its catch).
DevicesFailed ==
  /\ devLoad = "loading"
  /\ LET s1 == IF impl = "A" THEN Cur ELSE setDebugInfo(Cur, "loaderror")
         t == [s1 EXCEPT !.devLoad = "done"]
     IN Commit(t) /\ last' = Plain("loadfail", 0, Cur, t)
  /\ UNCHANGED <<tf, impl, stopped, styleChanged>>

\* onValueChange of the style toggle; in A the effect then updates the ref.
setVisualizationType(s, v) ==
  IF impl = "A"
    THEN [s EXCEPT !.visualizationType = v, !.visualizationTypeRef = v]
    ELSE [s EXCEPT !.visualizationType = v]

SetStyle ==
  /\ mounted
  /\ \E v \in Styles :
       /\ v # visualizationType
       /\ LET t == setVisualizationType(Cur, v)
          IN Commit(t) /\ last' = Plain("style", 0, Cur, t)
  /\ styleChanged' = isRecording
  /\ UNCHANGED <<tf, impl, stopped>>

\* The button while it reads Start.  In A it is disabled without a device.
ClickStart ==
  /\ mounted /\ ~isRecording
  /\ impl = "A" => selectedDevice # 0
  /\ selectedDevice # 0 => nextId < MaxStarts
  /\ LET t == IF impl = "A" THEN startVisualization(Cur) ELSE startRecording(Cur)
         op == IF selectedDevice = 0 THEN "startEmpty" ELSE "start"
     IN Commit(t) /\ last' = Plain(op, t.nextId, Cur, t)
  /\ stopped' = IF impl = "B" /\ selectedDevice # 0 THEN TRUE ELSE stopped
  /\ UNCHANGED <<tf, impl, styleChanged>>

\* The button while it reads Stop.
ClickStop ==
  /\ mounted /\ isRecording
  /\ LET t == IF impl = "A" THEN stopVisualization(Cur)
                            ELSE stopRecording(Cur, audioContext)
     IN Commit(t)
        /\ last' = LastRec("stop", 0, Cur, t, FALSE, FALSE, "none", "none", TRUE)
  /\ stopped' = TRUE
  /\ styleChanged' = FALSE
  /\ UNCHANGED <<tf, impl>>

\* getUserMedia of start attempt k resolves; start's first frame cycle may
\* meet a transform that throws.
Resolve ==
  \E k \in Ids, throws \in BOOLEAN :
    /\ attempts[k].st = "pending"
    /\ LET t == IF impl = "A" THEN startVisualization_resume(Cur, k, throws)
                              ELSE startRecording_resume(Cur, k, throws)
           executed == canvas /\ (impl = "B" => attempts[k].recC)
           style == IF impl = "A" THEN visualizationTypeRef ELSE attempts[k].styleC
           read == SampleRead(style)
           caught == impl = "B" /\ executed /\ throws
       IN /\ Commit(t)
          /\ last' = CycleRec(LastRec("resolve", k, Cur, t, executed, throws, read,
                                      style, caught), t, k, throws)
          /\ stopped' = caught
          /\ styleChanged' = IF caught THEN FALSE ELSE styleChanged
    /\ UNCHANGED <<tf, impl>>

\* getUserMedia of start attempt k rejects.
Reject ==
  \E k \in Ids :
    /\ attempts[k].st = "pending"
    /\ LET t == IF impl = "A" THEN startVisualization_catch(Cur, k)
                              ELSE startRecording_catch(Cur, k)
       IN Commit(t)
          /\ last' = LastRec("reject", k, Cur, t, FALSE, FALSE, "none", "none",
                             impl = "B")
    /\ stopped' = IF impl = "B" THEN TRUE ELSE stopped
    /\ styleChanged' = IF impl = "B" THEN FALSE ELSE styleChanged
    /\ UNCHANGED <<tf, impl>>

\* The scheduler runs the pending frame callback of loop k.
Frame ==
  \E k \in pendingFrames, throws \in BOOLEAN :
    /\ LET s0 == [Cur EXCEPT !.pendingFrames = @ \ {k}]
           t == IF impl = "A" THEN draw(s0, k, throws) ELSE drawFrame(s0, k, throws)
           executed == impl = "B" => attempts[k].recC
           style == IF impl = "A" THEN visualizationTypeRef ELSE attempts[k].styleC
           read == SampleRead(style)
           caught == impl = "B" /\ executed /\ throws
       IN /\ Commit(t)
          /\ last' = CycleRec(LastRec("frame", k, Cur, t, executed, throws, read,
                                      style, caught), t, k, throws)
          /\ stopped' = IF caught THEN TRUE ELSE stopped
          /\ styleChanged' = IF caught THEN FALSE ELSE styleChanged
    /\ UNCHANGED <<tf, impl>>

\* The component is torn down: the canvas ref is detached, then the cleanup
\* of the first render runs stop (in B with the audioContext of that render,
\* null); the component's state is gone with it.
Unmount ==
  /\ mounted
  /\ LET s0 == [Cur EXCEPT !.canvas = FALSE]
         s1 == IF impl = "A" THEN stopVisualization(s0) ELSE stopRecording(s0, 0)
         t == [s1 EXCEPT !.mounted = FALSE]
     IN Commit(t)
        /\ last' = LastRec("unmount", 0, Cur, t, FALSE, FALSE, "none", "none", TRUE)
  /\ stopped' = TRUE
  /\ styleChanged' = FALSE
  /\ UNCHANGED <<tf, impl>>

\* The canvas is given another width and height (the layout changes).
Resize ==
  /\ mounted /\ canvas
  /\ \E z \in Sizes \ {canvasSize} :
       LET t == [Cur EXCEPT !.canvasSize = z]
       IN Commit(t) /\ last' = Plain("resize", 0, Cur, t)
  /\ UNCHANGED <<tf, impl, stopped, styleChanged>>

Next ==
  \/ DevicesLoaded
  \/ DevicesFailed
  \/ SetStyle
  \/ ClickStart
  \/ ClickStop
  \/ Resolve
  \/ Reject
  \/ Frame
  \/ Resize
  \/ Unmount

Spec == Init /\ [][Next]_vars

----
(* Render transforms *)

\* Longest sample buffer explored.
MaxN == 9
\* Sample values explored: silence, the waveform's zero crossing, full scale.
Samples == {0, 128, 255}
\* Surface widths and heights explored.
Widths == {0, 400, 800}
Heights == {0, 200, 400}

\* Exact fractions <<n, d>> with d > 0, in lowest terms, for the transforms'
\* arithmetic.
RECURSIVE Gcd(_, _)
Gcd(a, b) == IF b = 0 THEN a ELSE Gcd(b, a % b)
Abs(a) == IF a < 0 THEN -a ELSE a
Frac(n, d) ==
  LET g == Gcd(Abs(n), Abs(d))
      sg == IF d < 0 THEN -1 ELSE 1
  IN <<(sg * n) \div g, (sg * d) \div g>>
Whole(n) == <<n, 1>>
Plus(p, q) == Frac(p[1] * q[2] + q[1] * p[2], p[2] * q[2])
Minus(p, q) == Frac(p[1] * q[2] - q[1] * p[2], p[2] * q[2])
Times(p, q) == Frac(p[1] * q[1], p[2] * q[2])
Over(p, q) == Frac(p[1] * q[2], p[2] * q[1])
Less(p, q) == p[1] * q[2] < q[1] * p[2]
Min(p, q) == IF Less(q, p) THEN q ELSE p

\* The buffer of n samples a, b, a, b, ...
Buffer(n, a, b) == [i \in 1..n |-> IF i % 2 = 1 THEN a ELSE b]

\* dataArray[i] of the code is data[i + 1].
\* drawLine (A): the points of the path.
drawLine(data, width, height) ==
  LET bufferLength == Len(data)
      sliceWidth == Over(Whole(width), Whole(bufferLength))
  IN [j \in 1..bufferLength |->
        LET v == Over(Whole(data[j]), Whole(255))
        IN [x |-> Times(Whole(j - 1), sliceWidth),
            y |-> Plus(Times(Over(Whole(height), Whole(2)),
                             Minus(Whole(1), Times(v, Whole(2)))),
                       Over(Whole(height), Whole(2)))]]

\* drawStraightLine (B): the points of the path.
drawStraightLine(data, width, height) ==
  LET sliceWidth == Over(Whole(width), Whole(Len(data)))
      centerY == Over(Whole(height), Whole(2))
  IN [j \in 1..Len(data) |->
        LET percent == Over(Whole(data[j]), Whole(255))
        IN [x |-> Times(Whole(j - 1), sliceWidth),
            y |-> Minus(centerY, Times(percent, Over(Whole(height), Whole(2))))]]

\* drawCircle (A): the base radius and, for every eighth sample, the radius
\* of its point (its angle is i / bufferLength of a turn).
drawCircleA(data, width, height) ==
  LET bufferLength == Len(data)
      radius == Over(Min(Whole(width), Whole(height)), Whole(4))
      drawn == {i \in 0..(bufferLength - 1) : i % 8 = 0}
  IN [base |-> radius,
      points |-> [i \in drawn |->
                    LET amplitude == Over(Whole(data[i + 1]), Whole(255))
                    IN Plus(radius, Times(amplitude, Whole(50)))]]

\* drawCircle (B): the base radius and the radius of every sample's point.
drawCircleB(data, width, height) ==
  LET centerX == Over(Whole(width), Whole(2))
      centerY == Over(Whole(height), Whole(2))
      baseRadius == Times(Min(centerX, centerY), Frac(8, 10))
  IN [base |-> baseRadius,
      points |-> [i \in 0..(Len(data) - 1) |->
                    LET percent == Over(Whole(data[i + 1]), Whole(255))
                    IN Times(baseRadius, Plus(Whole(1), Times(percent, Frac(5, 10))))]]

\* drawBars (A): the rectangles filled, from bar i at position x on; the loop
\* ends after the bar whose successor would start beyond the width.
RECURSIVE barsFrom(_, _, _, _, _)
barsFrom(data, i, x, width, height) ==
  IF i >= Len(data) THEN <<>>
  ELSE LET barWidth == Times(Over(Whole(width), Whole(Len(data))), Frac(25, 10))
           barHeight == Times(Over(Whole(data[i + 1]), Whole(255)), Whole(height))
           bar == [i |-> i, x |-> x, y |-> Minus(Whole(height), barHeight),
                   w |-> barWidth, h |-> barHeight]
           nx == Plus(x, Plus(barWidth, Whole(1)))
       IN IF Less(Whole(width), nx) THEN <<bar>>
          ELSE <<bar>> \o barsFrom(data, i + 1, nx, width, height)

drawBarsA(data, width, height) == barsFrom(data, 0, Whole(0), width, height)

\* drawBars (B): the rectangles filled.
drawBarsB(data, width, height) ==
  LET barCount == Len(data)
      barWidth == Times(Over(Whole(width), Whole(barCount)), Frac(8, 10))
      barSpacing == Times(Over(Whole(width), Whole(barCount)), Frac(2, 10))
  IN [j \in 1..barCount |->
        LET percent == Over(Whole(data[j]), Whole(255))
            barHeight == Times(Whole(height), percent)
        IN [i |-> j - 1, x |-> Times(Whole(j - 1), Plus(barWidth, barSpacing)),
            y |-> Minus(Whole(height), barHeight), w |-> barWidth, h |-> barHeight]]

\* The transform the frame cycle dispatches to for a style.
Transform(style, data, width, height) ==
  CASE style = "line" -> IF impl = "A" THEN drawLine(data, width, height)
                                       ELSE drawStraightLine(data, width, height)
    [] style = "circle" -> IF impl = "A" THEN drawCircleA(data, width, height)
                                         ELSE drawCircleB(data, width, height)
    [] style = "bar" -> IF impl = "A" THEN drawBarsA(data, width, height)
                                      ELSE drawBarsB(data, width, height)

\* The transforms as functions: any buffer and geometry, then a transform
\* applied to them.
InitT ==
  /\ InitController
  /\ \E n \in 1..MaxN, a \in Samples, b \in Samples, w \in Widths, h \in Heights :
       tf = [NoTransform EXCEPT !.data = Buffer(n, a, b), !.width = w, !.height = h]

Applied(style) ==
  [tf EXCEPT !.style = style, !.out = Transform(style, tf.data, tf.width, tf.height)]

ApplyLine ==
  /\ tf' = Applied("line")
  /\ UNCHANGED <<impl, sys, last, stopped, styleChanged>>

ApplyCircle ==
  /\ tf' = Applied("circle")
  /\ UNCHANGED <<impl, sys, last, stopped, styleChanged>>

ApplyBars ==
  /\ tf' = Applied("bar")
  /\ UNCHANGED <<impl, sys, last, stopped, styleChanged>>

NextT ==
  \/ ApplyLine
  \/ ApplyCircle
  \/ ApplyBars

SpecT == InitT /\ [][NextT]_vars

----
(* Claims *)

\* The loops whose next frame is requested and not cancelled are the frame
\* requests pending; the style a pending request of loop k will dispatch to.
FrameStyle(k) == IF impl = "A" THEN visualizationTypeRef ELSE attempts[k].styleC

\* C1: at most one capture session is open at any instant: while the
\* component is mounted (teardown is C10 and C21), the number of streams
\* acquired by start whose tracks are not stopped is 1 while Active and 0
\* otherwise (opens = closes + (1 if Active else 0)).
C1_OneOpenSession == mounted => Cardinality(live) = (IF isRecording THEN 1 ELSE 0)

\* C2: after a start whose acquisition succeeds the per-frame cycle runs:
\* whenever the state is Active a next-frame request is pending, and the
\* frame cycle that start invokes paints instead of returning at once.
C2_ActiveLoopRuns ==
  /\ (mounted /\ isRecording) => pendingFrames # {}
  /\ (last.op = "resolve" /\ mounted /\ isRecording) => last.executed

\* C3: once stop has returned, no frame cycle executes (no sample read, no
\* paint, no new frame request) until a later start succeeds.
C3_NoFrameAfterStop == (last.op = "frame" /\ last.executed) => ~stopped

\* C4: stop is idempotent: a handler that ends by running stop leaves the
\* state Idle with no pending frame request and no open session (stream and
\* source references cleared), and running stop right after a stop changes
\* none of that.
C4_StopIdempotent ==
  last.stopRan =>
    /\ ~isRecording
    /\ pendingFrames = {}
    /\ streamRef = 0 /\ sourceRef = 0
    /\ last.afterStop => last.same

\* C5: stop from Active releases the whole session: the source node that was
\* held is disconnected, every track of the stream that was held is stopped,
\* the stream and source references are null and the state is Idle.
C5_StopReleasesSession ==
  (last.stopRan /\ last.wasActive) =>
    /\ last.streamWas # 0 /\ last.streamWas \notin live
    /\ last.sourceWas # 0 /\ last.sourceWas \notin connected
    /\ streamRef = 0 /\ sourceRef = 0
    /\ ~isRecording

C5_Witness ==
  /\ last.op = "stop" /\ last.wasActive /\ last.streamWas # 0
  /\ last.streamWas \notin live /\ ~isRecording

\* C6: a style change made while Active neither stops nor restarts the loop,
\* and the next painted frame dispatches to the transform of the new style:
\* while Active after a style change a frame request is pending that will
\* dispatch to the current style, and every frame cycle dispatches to the
\* style current when it runs.
C6_StyleChangeNextFrame ==
  /\ (styleChanged /\ mounted /\ isRecording) =>
        \E k \in pendingFrames : FrameStyle(k) = visualizationType
  /\ (last.op = "style" /\ last.wasActive) => last.same
  /\ (last.op = "frame" /\ last.executed) => last.style = visualizationType

\* C7: if acquiring the capture stream fails during start, the state ends
\* Idle with no open session and no pending frame, and the status surfaced
\* after the attempt is the message describing that error.
C7_FailedStartSurfacesError ==
  last.op = "reject" =>
    /\ ~isRecording
    /\ streamRef = 0 /\ sourceRef = 0
    /\ pendingFrames = {}
    /\ debugInfo = "error"

C9_TransformFaultStops ==
  last.threw =>
    /\ ~isRecording
    /\ pendingFrames = {}
    /\ streamRef = 0 /\ sourceRef = 0
    /\ debugInfo # ""

\* C10: tearing the component down while Active runs stop: after the
\* unmount no stream acquired by start has a live track and no frame
\* request is pending.
C10_UnmountReleases ==
  (last.op = "unmount" /\ last.wasActive) => (live = {} /\ pendingFrames = {})

\* The value 255 samples are normalised by, and s / 255 of a quantity q.
Scaled(s, q) == Times(Over(Whole(s), Whole(255)), q)

\* C11: Bars renders every sample as one bar: drawBars draws bars for the
\* indices 0..N-1 from left to right, bar i of height (s_i / 255) * height
\* standing on the bottom edge; for the buffer [255,0,255,0] on 400x200 that
\* is heights 200, 0, 200, 0 and a painted width of at most 400.
C11_BarPerSample ==
  tf.style = "bar" =>
    /\ Len(tf.out) = Len(tf.data)
    /\ \A j \in 1..Len(tf.out) :
         /\ tf.out[j].i = j - 1
         /\ tf.out[j].h = Scaled(tf.data[j], Whole(tf.height))
         /\ Plus(tf.out[j].y, tf.out[j].h) = Whole(tf.height)
         /\ j > 1 => ~Less(tf.out[j].x, tf.out[j - 1].x)
    /\ (tf.data = <<255, 0, 255, 0>> /\ tf.width = 400 /\ tf.height = 200) =>
         /\ [j \in 1..Len(tf.out) |-> tf.out[j].h] =
              <<Whole(200), Whole(0), Whole(200), Whole(0)>>
         /\ ~Less(Whole(400), Plus(tf.out[Len(tf.out)].x, tf.out[Len(tf.out)].w))

\* C12: Bars stays on the surface: every bar drawBars paints has x >= 0 and
\* ends at or before the width, so the bar widths and the gaps between them
\* add up to at most the width.
C12_BarsOnSurface ==
  tf.style = "bar" =>
    \A j \in 1..Len(tf.out) :
      /\ ~Less(tf.out[j].x, Whole(0))
      /\ ~Less(Whole(tf.width), Plus(tf.out[j].x, tf.out[j].w))

\* C13: Waveform-Line centres the mid value: for a buffer of samples all 128
\* every point of the path has y = height / 2.
C13_MidValueCentred ==
  (tf.style = "line" /\ \A j \in 1..Len(tf.data) : tf.data[j] = 128) =>
    \A j \in 1..Len(tf.out) : tf.out[j].y = Over(Whole(tf.height), Whole(2))

\* C14: Waveform-Line spans the full height: y is a linear function of the
\* sample value taking 0 to one vertical extreme (0 or height) and 255 to the
\* other, so strictly monotonic in between.
C14_LineSpansHeight ==
  tf.style = "line" =>
    \E e \in {<<0, tf.height>>, <<tf.height, 0>>} :
      \A j \in 1..Len(tf.out) :
        tf.out[j].y = Plus(Whole(e[1]), Scaled(tf.data[j], Whole(e[2] - e[1])))

\* The scale constant of the radial transform.
RadialK == Frac(1, 2)

\* C15: Radial radius mapping: every sample has a point, of radius
\* baseRadius * (1 + v * k) with v = s / 255 and the one constant k, whatever
\* the geometry: baseRadius for 0, baseRadius * (1 + k) for 255, never less
\* than baseRadius.
C15_RadialRadius ==
  tf.style = "circle" =>
    /\ DOMAIN tf.out.points = 0..(Len(tf.data) - 1)
    /\ \A i \in DOMAIN tf.out.points :
         /\ tf.out.points[i] =
              Times(tf.out.base, Plus(Whole(1), Scaled(tf.data[i + 1], RadialK)))
         /\ ~Less(tf.out.points[i], tf.out.base)

C17_OneLoop ==
  /\ Cardinality(pendingFrames) <= 1
  /\ pendingFrames # {} => pendingFrames = {animationRef}

\* C18: within one frame cycle the steps come in the order sample read,
\* background paint, transform, request for the next frame: every step of a
\* cycle that ran is later in that order than the steps made before it.
C18_RequestAfterPaint ==
  LET rank == [read |-> 1, background |-> 2, transform |-> 3, request |-> 4]
  IN last.executed =>
       /\ last.steps # <<>>
       /\ \A i \in 1..Len(last.steps), j \in 1..Len(last.steps) :
            i < j => rank[last.steps[i]] < rank[last.steps[j]]

\* C19: the surface geometry is read again in every frame: the background
\* paint and the transform of a frame cycle use the width and height the
\* canvas has when the cycle runs, also after a resize during the session.
C19_GeometryReread == last.executed => last.geom = canvasSize

\* C20: a stop from Active ends with a cleared surface: with the canvas in
\* place, the last paint of the stop is a background-only fill, so nothing
\* drawn from samples stays visible.
C20_StopClearsSurface ==
  (last.stopRan /\ last.wasActive /\ canvas) => surface = "cleared"

\* C21: teardown during a pending start leaks nothing: when the component
\* was unmounted while a start was awaiting its stream and the acquisition
\* then resolves, no stream has a live track, no frame request is pending
\* and the state is not Active.
C21_TeardownDuringStart ==
  (last.op = "resolve" /\ ~mounted) =>
    /\ live = {}
    /\ pendingFrames = {}
    /\ ~isRecording

\* C22: in the startRecording/stopRecording implementation every audio
\* context a start created is closed by the time the controller is next
\* Idle: with no start awaiting its stream, the number of contexts created
\* and not closed is 1 while Active and 0 while Idle.
C22_ContextsClosed ==
  (impl = "B" /\ \A k \in Ids : attempts[k].st # "pending") =>
    Cardinality(ctxOpen) = (IF isRecording THEN 1 ELSE 0)

====
